---- MODULE Spec2Model ----
(***************************************************************************)
(* A model of tracing-span-tree (src/src/lib.rs): the Layer that keeps a   *)
(* Data record in every open span's extensions, turns it into a Node when  *)
(* the span closes, pushes the Node into the parent's Data or, for a root  *)
(* span, aggregates and prints the finished tree.                          *)
(*                                                                         *)
(* Span names are sequences of character codes, ordered as Rust orders     *)
(* &str (lexicographically, by bytes); <<>> is the empty name "", which is *)
(* also the name of Node::default().  One clock tick is one nanosecond.    *)
(*                                                                         *)
(* Spec and SpecEvents run the handlers one at a time; SpecPrint runs      *)
(* Node::print on every small tree; SpecEnable starts before enable();     *)
(* SpecThreads, SpecSink and SpecBroken split on_close into the steps at   *)
(* which calls on other threads, a failing writer, or a host that breaks   *)
(* its contract can be told apart.                                         *)
(***************************************************************************)
EXTENDS Integers, Sequences, FiniteSets, TLC

\* The number of spans the host creates, and of events it emits, in one run.
MaxSpans == 3

\* The last instant the clock reaches.
MaxTime == 1

\* The largest number of nodes of a tree handed to Node::print directly.
MaxNodes == 5

\* The threads on which the host closes spans: there are as many on_close
\* calls running at the same time, at most.
Threads == {"main", "worker"}

\* The span names the host uses: "" and "a".
Names == {<<>>, <<1>>}

\* The durations of the nodes of a tree handed to Node::print directly.
Durations == {1, 2}

\* The id of no span (span.parent() = None).
NoSpan == 0

\* The types W::Writer can be: io::Stderr, or any other (a file, a buffer).
WriterTypes == {"Stderr", "Other"}

\* A writer: the type of what make_writer() returns, and whether what it
\* writes to is an interactive terminal.
Writers == [type : WriterTypes, terminal : BOOLEAN]

\* span_tree(): writer = io::stderr, here with stderr left on the terminal
StderrOnTerminal == [type |-> "Stderr", terminal |-> TRUE]

\* const BOLD = "\u{001b}[1m" and const RESET = "\u{001b}[0m", as character codes
BOLD == <<27, 91, 49, 109>>

RESET == <<27, 91, 48, 109>>

VARIABLES
    spans,      \* the registry: id of every open span -> its name and parent
    ext,        \* the extensions: id -> the Data stored for that span
    now,        \* Instant::now()
    nextId,     \* the id the registry gives to the next span
    aggregate,  \* SpanTree.aggregate
    output,     \* the lines written to the writer so far
    pc,         \* where the on_close handler of a root span stands
    cur,        \* the Node that handler owns (<<node>>), or <<>>
    idx,        \* Node::aggregate, the local idx
    i,          \* Node::aggregate, the loop variable i
    root,       \* history: the id of the last root closed and its node as built
    log,        \* history: the spans closed so far, in closing order
    passes,     \* history: the print calls made so far
    writer,     \* SpanTree.writer: the type of W::Writer and where it writes to
    global,     \* whether tracing's global default subscriber is set
    enables,    \* history: the configuration of the first enable() call, and
                \* whether a later call came with another one
    diag,       \* the debug! events enable() has emitted
    th,         \* id -> the on_close call running for that span on its thread
    lock,       \* id -> the span whose handler holds that span's extensions lock
    events,     \* history: the number of on_event calls so far
    writes      \* history: every writeln! made line by line, and its outcome

\* What the handlers of one listener, run one at a time, leave alone
host == <<writer, global, enables, diag, th, lock, events, writes>>

vars == <<spans, ext, now, nextId, aggregate, output, pc, cur, idx, i, root, log, passes,
          writer, global, enables, diag, th, lock, events, writes>>

----------------------------------------------------------------------------
\* Node and Data

MkNode(name, count, duration, children) ==
    [name |-> name, count |-> count, duration |-> duration, children |-> children]

\* #[derive(Default)] struct Node
DefaultNode == MkNode(<<>>, 0, 0, <<>>)

\* Data::new: start = Instant::now(), children = Vec::new()
NewData(t) == [start |-> t, children |-> <<>>]

\* into_node without the children
IntoNodeChildless(data, name, t) == MkNode(name, 1, t - data.start, <<>>)

\* Data::into_node at instant t: duration = start.elapsed()
IntoNode(data, name, t) == MkNode(name, 1, t - data.start, data.children)

----------------------------------------------------------------------------
\* Node::aggregate

\* Ord for str: a < b
RECURSIVE StrLess(_, _)
StrLess(a, b) ==
    IF b = <<>> THEN FALSE
    ELSE IF a = <<>> THEN TRUE
    ELSE IF Head(a) # Head(b) THEN Head(a) < Head(b)
    ELSE StrLess(Tail(a), Tail(b))

\* One insertion of the stable sort: x goes behind every element whose name
\* is not greater than its own.
RECURSIVE InsertSorted(_, _)
InsertSorted(s, x) ==
    IF s = <<>> THEN <<x>>
    ELSE IF StrLess(x.name, Head(s).name) THEN <<x>> \o s
    ELSE <<Head(s)>> \o InsertSorted(Tail(s), x)

\* The sort left out
SortByNameLeftOut(s) == s

\* self.children.sort_by_key(|it| it.name): a stable sort by name
RECURSIVE SortByName(_)
SortByName(s) ==
    IF s = <<>> THEN <<>>
    ELSE InsertSorted(SortByName(SubSeq(s, 1, Len(s) - 1)), s[Len(s)])

\* self.children.swap(a, b), 0-based
Swap(ch, a, b) == [ch EXCEPT ![a + 1] = ch[b + 1], ![b + 1] = ch[a + 1]]

\* The loop body with one of the three accumulations of a merge left out:
\* `field` is the field of the surviving node that is not updated.
LoopBodyWithout(field, st, k) ==
    IF st.ch[st.idx + 1].name = st.ch[k + 1].name
    THEN LET child == st.ch[k + 1]
             taken == [st.ch EXCEPT ![k + 1] = DefaultNode]
         IN  [st EXCEPT !.ch = [taken EXCEPT ![st.idx + 1] =
                [@ EXCEPT !.duration = IF field = "duration" THEN @ ELSE @ + child.duration,
                          !.count = IF field = "count" THEN @ ELSE @ + child.count,
                          !.children = IF field = "children" THEN @ ELSE @ \o child.children]]]
    ELSE IF st.idx + 1 <= k
         THEN [st EXCEPT !.ch = Swap(st.ch, st.idx + 1, k), !.idx = st.idx + 1]
         ELSE [st EXCEPT !.idx = st.idx + 1, !.ok = FALSE]

LoopBodyKeepsChildren(st, k) == LoopBodyWithout("children", st, k)

LoopBodyKeepsCount(st, k) == LoopBodyWithout("count", st, k)

LoopBodyKeepsDuration(st, k) == LoopBodyWithout("duration", st, k)

\* The loop body with the merged child copied, not taken, out of its slot
LoopBodyCopies(st, k) ==
    IF st.ch[st.idx + 1].name = st.ch[k + 1].name
    THEN LET child == st.ch[k + 1]
         IN  [st EXCEPT !.ch[st.idx + 1] =
                        [@ EXCEPT !.duration = @ + child.duration,
                                  !.count = @ + child.count,
                                  !.children = @ \o child.children]]
    ELSE IF st.idx + 1 <= k
         THEN [st EXCEPT !.ch = Swap(st.ch, st.idx + 1, k), !.idx = st.idx + 1]
         ELSE [st EXCEPT !.idx = st.idx + 1, !.ok = FALSE]

\* The body of `for i in 1..self.children.len()`, on st = [ch, idx, ok];
\* ok becomes FALSE when assert!(idx <= i) fails.
LoopBody(st, k) ==
    IF st.ch[st.idx + 1].name = st.ch[k + 1].name
    THEN LET child == st.ch[k + 1]
             taken == [st.ch EXCEPT ![k + 1] = DefaultNode]
         IN  [st EXCEPT !.ch = [taken EXCEPT ![st.idx + 1] =
                        [@ EXCEPT !.duration = @ + child.duration,
                                  !.count = @ + child.count,
                                  !.children = @ \o child.children]]]
    ELSE IF st.idx + 1 <= k
         THEN [st EXCEPT !.ch = Swap(st.ch, st.idx + 1, k), !.idx = st.idx + 1]
         ELSE [st EXCEPT !.idx = st.idx + 1, !.ok = FALSE]

\* The whole loop, from iteration k on
RECURSIVE ForLoop(_, _)
ForLoop(st, k) ==
    IF k >= Len(st.ch) \/ ~st.ok THEN st ELSE ForLoop(LoopBody(st, k), k + 1)

\* truncate(idx) for truncate(idx + 1)
TruncateShort(ch, n) == SubSeq(ch, 1, n - 1)

\* The truncation left out
TruncateLeftOut(ch, n) == ch

\* self.children.truncate(n)
Truncate(ch, n) == SubSeq(ch, 1, IF n < Len(ch) THEN n ELSE Len(ch))

\* The sort, the loop and the truncation of one call: the children list of
\* `node` when the call reaches its final `for child` loop.
MergeLevel(node) ==
    LET st == ForLoop([ch |-> SortByName(node.children), idx |-> 0, ok |-> TRUE], 1)
    IN  [node EXCEPT !.children = Truncate(st.ch, st.idx + 1)]

\* Node::aggregate, as a function of the node
RECURSIVE Aggregate(_)
Aggregate(node) ==
    IF node.children = <<>> THEN node
    ELSE LET kept == MergeLevel(node).children
         IN  [node EXCEPT !.children = [k \in 1..Len(kept) |-> Aggregate(kept[k])]]

----------------------------------------------------------------------------
\* Node::go

\* should_style::<W>(): both tests compare W::Writer with io::Stderr
ShouldStyle(w) ==
    IF w.type = "Stderr" THEN TRUE
    ELSE IF w.type = "Stderr" THEN TRUE
    ELSE FALSE

\* style!(W, BOLD, name): "{BOLD}{name}{RESET}" when should_style, else "{name}"
Style(w, name) == IF ShouldStyle(w) THEN BOLD \o name \o RESET ELSE name

\* format_args!(" {duration:3.2?} ") of a duration below one microsecond
FmtDuration(d) == [int |-> d, frac |-> <<0, 0>>, unit |-> "ns"]

\* The count column: the number when count > 1, blank otherwise
FmtCount(count) == IF count > 1 THEN <<count>> ELSE <<>>

\* The line go writes for `node` at `level`
Line(node, level) ==
    [kind |-> "node", width |-> level * 2, duration |-> FmtDuration(node.duration),
     count |-> FmtCount(node.count), name |-> Style(writer, node.name)]

\* writeln!(writer.make_writer())
BlankLine ==
    [kind |-> "blank", width |-> 0, duration |-> FmtDuration(0),
     count |-> <<>>, name |-> <<>>]

\* go with the blank line written after every subtree
RECURSIVE GoBlankAfterEach(_, _)
RECURSIVE GoBlankAfterEachOf(_, _)
GoBlankAfterEachOf(children, level) ==
    IF children = <<>> THEN <<>>
    ELSE GoBlankAfterEach(Head(children), level) \o GoBlankAfterEachOf(Tail(children), level)

GoBlankAfterEach(node, level) ==
    <<Line(node, level)>> \o GoBlankAfterEachOf(node.children, level + 1) \o <<BlankLine>>

\* The lines go(level) writes for `node`, in the order it writes them
RECURSIVE Go(_, _)
RECURSIVE GoChildren(_, _)
GoChildren(children, level) ==
    IF children = <<>> THEN <<>>
    ELSE Go(Head(children), level) \o GoChildren(Tail(children), level)

Go(node, level) ==
    <<Line(node, level)>> \o GoChildren(node.children, level + 1)
        \o (IF level = 0 THEN <<BlankLine>> ELSE <<>>)

----------------------------------------------------------------------------
\* The state machine

Init ==
    /\ spans = <<>>
    /\ ext = <<>>
    /\ now = 0
    /\ nextId = 1
    /\ aggregate \in BOOLEAN
    /\ output = <<>>
    /\ pc = "idle"
    /\ cur = <<>>
    /\ idx = 0
    /\ i = 0
    /\ root = [id |-> NoSpan, raw |-> DefaultNode]
    /\ log = <<>>
    /\ passes = <<>>
    /\ writer = StderrOnTerminal
    /\ global = TRUE
    /\ enables = [first |-> <<[aggregate |-> aggregate, writer |-> writer]>>,
                  differed |-> FALSE]
    /\ diag = 0
    /\ th = <<>>
    /\ lock = <<>>
    /\ events = 0
    /\ writes = <<>>

Open == DOMAIN spans

\* The calls the host has made since the listener was installed
Calls == (nextId - 1) + events + diag

\* f without the key k
Without(f, k) == [x \in DOMAIN f \ {k} |-> f[x]]

\* The clock advances.  Only differences of instants are ever read
\* (start.elapsed()), so it is advanced only while some span is open.
Tick ==
    /\ pc = "idle"
    /\ Open # {}
    /\ now < MaxTime
    /\ now' = now + 1
    /\ UNCHANGED <<spans, ext, nextId, aggregate, output, pc, cur, idx, i, root, log, passes>>
    /\ UNCHANGED host

\* Layer::on_new_span: the host has registered span nextId, named `name`,
\* under `parent` (an open span, or NoSpan).
OnNewSpan(name, parent) ==
    /\ pc = "idle"
    /\ global
    /\ Calls < MaxSpans
    /\ parent \in (Open \ DOMAIN th) \cup {NoSpan}
    /\ spans' = (nextId :> [name |-> name, parent |-> parent]) @@ spans
    /\ ext' = (nextId :> NewData(now)) @@ ext
    /\ nextId' = nextId + 1
    /\ UNCHANGED <<now, aggregate, output, pc, cur, idx, i, root, log, passes>>
    /\ UNCHANGED host

\* The node put in front of the parent's children
PushChildFront(children, node) == <<node>> \o children

\* parent_span...children.push(node)
PushChild(children, node) == Append(children, node)

\* Every span taken for a root
IsRootAlways(span) == TRUE

\* match span.parent() { ... None => ... }
IsRoot(span) == span.parent = NoSpan

\* Layer::on_event: the body is empty.
OnEvent ==
    /\ pc = "idle"
    /\ global
    /\ Calls < MaxSpans
    /\ events' = events + 1
    /\ UNCHANGED <<spans, ext, now, nextId, aggregate, output, pc, cur, idx, i, root, log,
                   passes, writer, global, enables, diag, th, lock, writes>>

\* The Data left in the extensions
RemoveDataLeftIn(e, id) == e

\* The Data of every span removed
RemoveDataOfAll(e, id) == <<>>

\* span.extensions_mut().remove::<Data>()
RemoveData(e, id) == Without(e, id)

\* Layer::on_close: the registry closes a span once no open span has it as
\* its parent.
OnClose(id) ==
    /\ pc = "idle"
    /\ id \in Open
    /\ \A c \in Open : spans[c].parent # id
    /\ id \in DOMAIN ext
    /\ LET span == spans[id]
           node == IntoNode(ext[id], span.name, now)
           rest == RemoveData(ext, id)
       IN  /\ log' = Append(log, [id |-> id, name |-> span.name, parent |-> span.parent,
                                  start |-> ext[id].start, end |-> now])
           /\ IF ~IsRoot(span)
              THEN /\ span.parent \in DOMAIN rest
                   /\ ext' = [rest EXCEPT ![span.parent].children = PushChild(@, node)]
                   /\ UNCHANGED <<pc, cur, root>>
              ELSE /\ ext' = rest
                   /\ cur' = <<node>>
                   /\ root' = [id |-> id, raw |-> node]
                   /\ pc' = IF aggregate THEN "aggregate" ELSE "go"
    /\ spans' = Without(spans, id)
    /\ UNCHANGED <<now, nextId, aggregate, output, idx, i, passes>>
    /\ UNCHANGED host

\* Node::aggregate on the root: the early return, or the sort.
AggSort ==
    /\ pc = "aggregate"
    /\ IF cur[1].children = <<>>
       THEN /\ pc' = "go"
            /\ UNCHANGED <<cur, idx, i>>
       ELSE /\ cur' = <<[cur[1] EXCEPT !.children = SortByName(@)]>>
            /\ idx' = 0
            /\ i' = 1
            /\ pc' = "loop"
    /\ UNCHANGED <<spans, ext, now, nextId, aggregate, output, root, log, passes>>
    /\ UNCHANGED host

\* One iteration of the loop of Node::aggregate on the root.
AggStep ==
    /\ pc = "loop"
    /\ i < Len(cur[1].children)
    /\ LET st == LoopBody([ch |-> cur[1].children, idx |-> idx, ok |-> TRUE], i)
       IN  /\ cur' = <<[cur[1] EXCEPT !.children = st.ch]>>
           /\ idx' = st.idx
           /\ i' = i + 1
           /\ pc' = IF st.ok THEN "loop" ELSE "panicked"
    /\ UNCHANGED <<spans, ext, now, nextId, aggregate, output, root, log, passes>>
    /\ UNCHANGED host

\* The loop is over: self.children.truncate(idx + 1).
AggTruncate ==
    /\ pc = "loop"
    /\ i >= Len(cur[1].children)
    /\ cur' = <<[cur[1] EXCEPT !.children = Truncate(@, idx + 1)]>>
    /\ pc' = "recurse"
    /\ UNCHANGED <<spans, ext, now, nextId, aggregate, output, idx, i, root, log, passes>>
    /\ UNCHANGED host

\* for child in &mut self.children { child.aggregate() }
AggRecurse ==
    /\ pc = "recurse"
    /\ cur' = <<[cur[1] EXCEPT !.children = [k \in 1..Len(@) |-> Aggregate(@[k])]]>>
    /\ pc' = "go"
    /\ UNCHANGED <<spans, ext, now, nextId, aggregate, output, idx, i, root, log, passes>>
    /\ UNCHANGED host

\* self.go(0, writer), after which on_close returns and drops the node.
Render ==
    /\ pc = "go"
    /\ output' = output \o Go(cur[1], 0)
    /\ passes' = Append(passes, [id |-> root.id, tree |-> cur[1],
                                 from |-> Len(output) + 1,
                                 to |-> Len(output) + Len(Go(cur[1], 0))])
    /\ cur' = <<>>
    /\ pc' = "idle"
    /\ UNCHANGED <<spans, ext, now, nextId, aggregate, idx, i, root, log>>
    /\ UNCHANGED host

Next ==
    \/ Tick
    \/ \E name \in Names, parent \in 0..MaxSpans : OnNewSpan(name, parent)
    \/ \E id \in 1..MaxSpans : OnClose(id)
    \/ AggSort
    \/ AggStep
    \/ AggTruncate
    \/ AggRecurse
    \/ Render

Spec == Init /\ [][Next]_vars

\* set_global_default succeeds whatever was set before
InstallsAlways(isSet) == TRUE

\* tracing::subscriber::set_global_default(subscriber) is Ok iff no global
\* default has been set yet
Installs(isSet) == ~isSet

\* SpanTree::enable on a listener built with aggregate = agg and writer = w:
\* it becomes the global default, or else debug! emits an event, which
\* reaches the on_event of the listener that is installed.
Enable(agg, w) ==
    /\ pc = "idle"
    /\ global => Calls < MaxSpans
    /\ IF Installs(global)
       THEN /\ global' = TRUE
            /\ aggregate' = agg
            /\ writer' = w
            /\ UNCHANGED diag
       ELSE /\ diag' = diag + 1
            /\ UNCHANGED <<global, aggregate, writer>>
    /\ enables' = IF enables.first = <<>>
                  THEN [first |-> <<[aggregate |-> agg, writer |-> w]>>, differed |-> FALSE]
                  ELSE [enables EXCEPT !.differed =
                           @ \/ enables.first[1] # [aggregate |-> agg, writer |-> w]]
    /\ UNCHANGED <<spans, ext, now, nextId, output, pc, cur, idx, i, root, log, passes,
                   th, lock, events, writes>>

\* A process in which no global default is set yet; aggregate and writer
\* are those of SpanTree::default() until a listener is installed.
InitEnable ==
    /\ spans = <<>>
    /\ ext = <<>>
    /\ now = 0
    /\ nextId = 1
    /\ aggregate = FALSE
    /\ output = <<>>
    /\ pc = "idle"
    /\ cur = <<>>
    /\ idx = 0
    /\ i = 0
    /\ root = [id |-> NoSpan, raw |-> DefaultNode]
    /\ log = <<>>
    /\ passes = <<>>
    /\ writer = StderrOnTerminal
    /\ global = FALSE
    /\ enables = [first |-> <<>>, differed |-> FALSE]
    /\ diag = 0
    /\ th = <<>>
    /\ lock = <<>>
    /\ events = 0
    /\ writes = <<>>

\* The host calls enable() any number of times, at any point between the
\* spans it creates and closes.  The clock stands still in these runs: no
\* step of enable() reads it.
NextEnable ==
    \/ \E agg \in BOOLEAN, w \in Writers : Enable(agg, w)
    \/ \E name \in Names, parent \in 0..MaxSpans : OnNewSpan(name, parent)
    \/ \E id \in 1..MaxSpans : OnClose(id)
    \/ AggSort
    \/ AggStep
    \/ AggTruncate
    \/ AggRecurse
    \/ Render

SpecEnable == InitEnable /\ [][NextEnable]_vars

----------------------------------------------------------------------------
\* on_close calls running on several threads at once.  The call for span id
\* is th[id]: the parent of the span, the node it has built, the tree it
\* prints, the children list it has read from the parent, the lines it has
\* still to write, and the stage it is at.

\* The on_close calls that have started and not returned
Running == { t \in DOMAIN th : th[t].stage \in {"go", "push", "locked"} }

\* Every lock granted at once
CanLockAlways(l, s) == TRUE

\* extensions_mut() on span s returns once no other call holds its lock
CanLock(l, s) == s \notin DOMAIN l

\* The traversal given up at the first write that fails
AfterWriteAborts(pending, ok) == IF ok THEN Tail(pending) ELSE <<>>

\* let _ = writeln!(..): the result is dropped and the traversal goes on
AfterWrite(pending, ok) == Tail(pending)

\* No line written while another tree is half written
SinkFreeBetweenTrees(id) ==
    \A r \in DOMAIN th \ {id} :
       ~(th[r].stage = "go" /\ \E k \in DOMAIN writes : writes[k].by = r)

\* writer.make_writer() is called for each writeln! and what it returns is
\* dropped with it: nothing is held from one line to the next
SinkFree(id) == TRUE

\* The call returning as if nothing had happened
UnwrapNoneReturns == "done"

\* Option::unwrap() on None panics: the stage a call is left at when it does
UnwrapNone == "panicked"

\* on_close up to the match: the Data is taken out of the span's extensions
\* and made into the node; for a root, print aggregates the node and go
\* starts on it.  The unwrap() panics when the span has no Data.
CloseBegin(id) ==
    /\ pc = "idle"
    /\ id \in Open \ DOMAIN th
    /\ Cardinality(Running) < Cardinality(Threads)
    /\ \A c \in Open : spans[c].parent # id
    /\ CanLock(lock, id)
    /\ IF id \notin DOMAIN ext
       THEN /\ th' = (id :> [stage |-> UnwrapNone, parent |-> spans[id].parent,
                             node |-> DefaultNode, tree |-> DefaultNode,
                             seen |-> <<>>, pending |-> <<>>]) @@ th
            /\ UNCHANGED <<ext, log>>
       ELSE LET span == spans[id]
                node == IntoNode(ext[id], span.name, now)
                tree == IF aggregate THEN Aggregate(node) ELSE node
            IN  /\ ext' = RemoveData(ext, id)
                /\ log' = Append(log, [id |-> id, name |-> span.name,
                                       parent |-> span.parent,
                                       start |-> ext[id].start, end |-> now])
                /\ th' = (id :> IF IsRoot(span)
                                THEN [stage |-> "go", parent |-> NoSpan,
                                      node |-> node, tree |-> tree,
                                      seen |-> <<>>, pending |-> Go(tree, 0)]
                                ELSE [stage |-> "push", parent |-> span.parent,
                                      node |-> node, tree |-> node,
                                      seen |-> <<>>, pending |-> <<>>]) @@ th
    /\ UNCHANGED <<spans, now, nextId, aggregate, output, pc, cur, idx, i, root, passes,
                   writer, global, enables, diag, lock, events, writes>>

\* parent_span.extensions_mut().get_mut::<Data>(): the lock of the parent's
\* extensions is taken and its children list is in hand.  The unwrap()
\* panics when the parent has no Data; unwinding drops the node and the lock.
LockParent(id) ==
    /\ id \in DOMAIN th
    /\ th[id].stage = "push"
    /\ LET parent == spans[id].parent
       IN  /\ CanLock(lock, parent)
           /\ IF parent \notin DOMAIN ext
              THEN /\ th' = [th EXCEPT ![id].stage = UnwrapNone]
                   /\ UNCHANGED lock
              ELSE /\ lock' = (parent :> id) @@ lock
                   /\ th' = [th EXCEPT ![id].stage = "locked",
                                       ![id].seen = ext[parent].children]
    /\ UNCHANGED <<spans, ext, now, nextId, aggregate, output, pc, cur, idx, i, root, log,
                   passes, writer, global, enables, diag, events, writes>>

\* .children.push(node), the lock dropped at the end of the statement, and
\* on_close returns: the registry forgets the span.
Push(id) ==
    /\ id \in DOMAIN th
    /\ th[id].stage = "locked"
    /\ LET parent == spans[id].parent
       IN  /\ ext' = [ext EXCEPT ![parent].children = PushChild(th[id].seen, th[id].node)]
           /\ lock' = Without(lock, parent)
    /\ th' = [th EXCEPT ![id].stage = "done"]
    /\ spans' = Without(spans, id)
    /\ UNCHANGED <<now, nextId, aggregate, output, pc, cur, idx, i, root, log, passes,
                   writer, global, enables, diag, events, writes>>

\* One writeln! of go on a root: the line reaches the sink (ok) or the write
\* fails; after the last one on_close returns.
WriteLine(id, ok) ==
    /\ id \in DOMAIN th
    /\ th[id].stage = "go"
    /\ SinkFree(id)
    /\ LET line == Head(th[id].pending)
           rest == AfterWrite(th[id].pending, ok)
       IN  /\ writes' = Append(writes, [by |-> id, line |-> line, ok |-> ok])
           /\ output' = IF ok THEN Append(output, line) ELSE output
           /\ th' = [th EXCEPT ![id].pending = rest,
                               ![id].stage = IF rest = <<>> THEN "done" ELSE "go"]
           /\ spans' = IF rest = <<>> THEN Without(spans, id) ELSE spans
    /\ UNCHANGED <<ext, now, nextId, aggregate, pc, cur, idx, i, root, log, passes,
                   writer, global, enables, diag, lock, events>>

\* Spans closing on several threads, every write reaching the sink
\* The clock stands still in these runs.
NextThreads ==
    \/ \E name \in Names, parent \in 0..MaxSpans : OnNewSpan(name, parent)
    \/ \E id \in 1..MaxSpans : CloseBegin(id)
    \/ \E id \in 1..MaxSpans : LockParent(id)
    \/ \E id \in 1..MaxSpans : Push(id)
    \/ \E id \in 1..MaxSpans : WriteLine(id, TRUE)

SpecThreads == Init /\ [][NextThreads]_vars

\* The host registers a span without calling on_new_span, against its
\* contract: the span has no Data.
OnNewSpanMissed(name, parent) ==
    /\ pc = "idle"
    /\ global
    /\ Calls < MaxSpans
    /\ parent \in (Open \ DOMAIN th) \cup {NoSpan}
    /\ spans' = (nextId :> [name |-> name, parent |-> parent]) @@ spans
    /\ nextId' = nextId + 1
    /\ UNCHANGED <<ext, now, aggregate, output, pc, cur, idx, i, root, log, passes>>
    /\ UNCHANGED host

\* Spans closing on several threads under a host that breaks its contract
NextBroken ==
    \/ \E name \in Names, parent \in 0..MaxSpans : OnNewSpanMissed(name, parent)
    \/ NextThreads

SpecBroken == Init /\ [][NextBroken]_vars

\* on_close called while no other on_close call is running
CloseAlone(id) == Running = {} /\ CloseBegin(id)

\* The listener of span_tree(), which does not aggregate
InitSink == Init /\ ~aggregate

\* Spans closing one at a time, each write reaching the sink or failing
NextSink ==
    \/ \E name \in Names, parent \in 0..MaxSpans : OnNewSpan(name, parent)
    \/ \E id \in 1..MaxSpans : CloseAlone(id)
    \/ \E id \in 1..MaxSpans : LockParent(id)
    \/ \E id \in 1..MaxSpans : Push(id)
    \/ \E id \in 1..MaxSpans, ok \in BOOLEAN : WriteLine(id, ok)

SpecSink == InitSink /\ [][NextSink]_vars

\* The same listener under a host that also emits events
NextEvents ==
    \/ Next
    \/ OnEvent

SpecEvents == Init /\ [][NextEvents]_vars

----------------------------------------------------------------------------
\* Node::print as a function of the node it is called on

\* The elements of a set of numbers, ascending
RECURSIVE Ascending(_)
Ascending(S) ==
    IF S = {} THEN <<>>
    ELSE LET m == CHOOSE x \in S : \A y \in S : x <= y
         IN  <<m>> \o Ascending(S \ {m})

\* a is b or an ancestor of b, in the tree whose node k has parent p[k]
RECURSIVE OnPath(_, _, _)
OnPath(p, a, b) == IF b = 0 THEN FALSE ELSE a = b \/ OnPath(p, a, p[b])

\* The shapes of the ordered trees of n nodes, the nodes numbered in pre-order
Shapes(n) ==
    { p \in [1..n -> 0..(n - 1)] : p[1] = 0 /\ \A k \in 2..n : OnPath(p, p[k], k - 1) }

\* A span closes before its parent: no node lasts longer than its parent.
Lasting(n, p) ==
    { dur \in [1..n -> Durations] : \A k \in 2..n : dur[k] <= dur[p[k]] }

\* The node into_node builds for node k of such a tree: its count is 1.
RECURSIVE TreeAt(_, _, _, _)
TreeAt(k, p, name, dur) ==
    LET kids == Ascending({ c \in DOMAIN p : p[c] = k })
    IN  MkNode(name[k], 1, dur[k], [j \in 1..Len(kids) |-> TreeAt(kids[j], p, name, dur)])

\* on_close has just built the root node `tree` and calls node.print.
InitPrint ==
    /\ spans = <<>>
    /\ ext = <<>>
    /\ now = 0
    /\ nextId = 1
    /\ aggregate \in BOOLEAN
    /\ output = <<>>
    /\ \E n \in 1..MaxNodes : \E p \in Shapes(n) : \E dur \in Lasting(n, p) :
          \E name \in [1..n -> Names] :
             /\ cur = <<TreeAt(1, p, name, dur)>>
             /\ root = [id |-> 1, raw |-> TreeAt(1, p, name, dur)]
    /\ pc = IF aggregate THEN "aggregate" ELSE "go"
    /\ idx = 0
    /\ i = 0
    /\ log = <<>>
    /\ passes = <<>>
    /\ writer = StderrOnTerminal
    /\ global = TRUE
    /\ enables = [first |-> <<[aggregate |-> aggregate, writer |-> writer]>>,
                  differed |-> FALSE]
    /\ diag = 0
    /\ th = <<>>
    /\ lock = <<>>
    /\ events = 0
    /\ writes = <<>>

NextPrint ==
    \/ AggSort
    \/ AggStep
    \/ AggTruncate
    \/ AggRecurse
    \/ Render

SpecPrint == InitPrint /\ [][NextPrint]_vars

----------------------------------------------------------------------------
\* Vocabulary of the properties

Range(s) == { s[k] : k \in DOMAIN s }

\* Every node of the tree under `node`, `node` included
RECURSIVE AllNodes(_)
AllNodes(node) == {node} \cup UNION { AllNodes(node.children[k]) : k \in DOMAIN node.children }

\* The number of nodes of the tree under `node`
RECURSIVE NodeCount(_)
RECURSIVE ForestCount(_)
ForestCount(children) ==
    IF children = <<>> THEN 0 ELSE NodeCount(Head(children)) + ForestCount(Tail(children))

NodeCount(node) == 1 + ForestCount(node.children)

RECURSIVE SumCount(_)
SumCount(children) ==
    IF children = <<>> THEN 0 ELSE Head(children).count + SumCount(Tail(children))

RECURSIVE SumDuration(_)
SumDuration(children) ==
    IF children = <<>> THEN 0 ELSE Head(children).duration + SumDuration(Tail(children))

\* The children lists of the nodes of `children`, one after the other
RECURSIVE Pooled(_)
Pooled(children) ==
    IF children = <<>> THEN <<>> ELSE Head(children).children \o Pooled(Tail(children))

\* The children of `node` named `name`, in list order
Named(node, name) == SelectSeq(node.children, LAMBDA c : c.name = name)

\* The names of a set, ascending
RECURSIVE AscendingNames(_)
AscendingNames(S) ==
    IF S = {} THEN <<>>
    ELSE LET m == CHOOSE x \in S : \A y \in S \ {x} : StrLess(x, y)
         IN  <<m>> \o AscendingNames(S \ {m})

\* The group-by-name reference: one child per name, ascending, holding the
\* summed count and duration and the pooled children, themselves grouped.
RECURSIVE GroupByName(_)
GroupByName(node) ==
    LET names == AscendingNames({ node.children[k].name : k \in DOMAIN node.children })
    IN  [node EXCEPT !.children =
            [k \in 1..Len(names) |->
                GroupByName(MkNode(names[k],
                                   SumCount(Named(node, names[k])),
                                   SumDuration(Named(node, names[k])),
                                   Pooled(Named(node, names[k]))))]]

NoEqualNames(node) ==
    \A a, b \in DOMAIN node.children : a # b => node.children[a].name # node.children[b].name

\* The nodes Node::aggregate is called on, each as it is when the call starts
RECURSIVE Reached(_)
Reached(node) ==
    LET merged == MergeLevel(node).children
    IN  {node} \cup UNION { Reached(merged[k]) : k \in DOMAIN merged }

\* The tree the aggregation has finished, when it has
Aggregated == aggregate /\ pc = "go"

\* print has returned
Printed == passes # <<>>

----------------------------------------------------------------------------
\* C2: with aggregation enabled the tree handed to go, and the lines written
\* for it, are those of the group-by-name reference of the tree as built:
\* same-named siblings are one child with the summed count and duration and
\* the pooled children, grouped in turn, children in ascending name order.
C2_GroupByNameReference ==
    (aggregate /\ Printed /\ pc = "idle") =>
        LET reference == GroupByName(root.raw)
            last == passes[Len(passes)]
        IN  /\ last.tree = reference
            /\ SubSeq(output, last.from, last.to) = Go(reference, 0)

\* Two same-named siblings with one same-named child each have been printed
\* as one child of count 2 holding one child of count 2.
C2_Witness ==
    /\ aggregate /\ Printed
    /\ Len(root.raw.children) = 2
    /\ root.raw.children[1].name = root.raw.children[2].name
    /\ Len(root.raw.children[1].children) = 1
    /\ Len(root.raw.children[2].children) = 1
    /\ root.raw.children[1].children[1].name = root.raw.children[2].children[1].name
    /\ LET tree == passes[Len(passes)].tree
       IN  /\ Len(tree.children) = 1
           /\ tree.children[1].count = 2
           /\ Len(tree.children[1].children) = 1
           /\ tree.children[1].children[1].count = 2

\* C3: after Node::aggregate has returned on a root, no node of the tree has
\* two direct children with equal names.
C3_NoEqualNamedSiblings ==
    Aggregated => \A n \in AllNodes(cur[1]) : NoEqualNames(n)

\* The aggregation has finished on a tree in which the pooled children of
\* merged siblings held equal names.
C3_Witness ==
    /\ Aggregated
    /\ \E a, b \in DOMAIN root.raw.children :
          /\ a # b
          /\ root.raw.children[a].name = root.raw.children[b].name
          /\ \E x \in Range(root.raw.children[a].children),
                y \in Range(root.raw.children[b].children) : x.name = y.name

\* C4: at every node the aggregation reaches, the counts of its children sum
\* to the same before the merge and after the truncation, and each surviving
\* child's count is the number of children of that name before the merge.
C4_CountConservation ==
    /\ (aggregate /\ pc = "aggregate") =>
          \A n \in Reached(cur[1]) :
             LET merged == MergeLevel(n).children
             IN  /\ SumCount(merged) = SumCount(n.children)
                 /\ \A c \in Range(merged) : c.count = Len(Named(n, c.name))
    /\ (aggregate /\ pc = "recurse") =>
          /\ SumCount(cur[1].children) = SumCount(root.raw.children)
          /\ \A c \in Range(cur[1].children) : c.count = Len(Named(root.raw, c.name))

\* The truncation has run at the root after three siblings were merged.
C4_Witness ==
    /\ aggregate /\ pc = "recurse"
    /\ \E c \in Range(cur[1].children) : c.count = 3
    /\ Len(cur[1].children) = 2

\* C5: at every node the aggregation reaches, the durations of its children
\* sum to the same before the merge and after it, a merged child's duration
\* is the sum of the durations of the siblings of its name, and the node's
\* own duration is unchanged.
C5_DurationConservation ==
    /\ (aggregate /\ pc = "aggregate") =>
          \A n \in Reached(cur[1]) :
             LET merged == MergeLevel(n)
             IN  /\ SumDuration(merged.children) = SumDuration(n.children)
                 /\ \A c \in Range(merged.children) :
                       c.duration = SumDuration(Named(n, c.name))
                 /\ merged.duration = n.duration
    /\ (aggregate /\ pc \in {"recurse", "go"}) =>
          /\ SumDuration(cur[1].children) = SumDuration(root.raw.children)
          /\ \A c \in Range(cur[1].children) : c.duration = SumDuration(Named(root.raw, c.name))
          /\ cur[1].duration = root.raw.duration

\* The aggregation has finished after merging siblings of different
\* durations.
C5_Witness ==
    /\ Aggregated
    /\ \E a, b \in DOMAIN root.raw.children :
          /\ root.raw.children[a].name = root.raw.children[b].name
          /\ root.raw.children[a].duration = 1
          /\ root.raw.children[b].duration = 2
    /\ \E c \in Range(cur[1].children) : c.duration = 3

\* C6: Node::aggregate applied to a tree Node::aggregate has produced leaves
\* it as it is.
C6_Idempotent ==
    Aggregated => Aggregate(cur[1]) = cur[1]

\* The aggregation has finished and has changed the tree.
C6_Witness ==
    /\ Aggregated
    /\ cur[1] # root.raw
    /\ \E c \in Range(cur[1].children) : c.children # <<>>

\* The positions of the nodes of a tree: the child indices on the way down
RECURSIVE Paths(_)
Paths(node) ==
    { <<>> } \cup UNION { { <<k>> \o p : p \in Paths(node.children[k]) }
                          : k \in DOMAIN node.children }

RECURSIVE NodeAt(_, _)
NodeAt(node, path) ==
    IF path = <<>> THEN node ELSE NodeAt(node.children[Head(path)], Tail(path))

\* Pre-order: a node before its descendants, an earlier child's subtree before
\* a later child's
PathBefore(p, q) ==
    /\ p # q
    /\ \/ Len(p) < Len(q) /\ SubSeq(q, 1, Len(p)) = p
       \/ \E j \in DOMAIN p \cap DOMAIN q :
             /\ SubSeq(p, 1, j - 1) = SubSeq(q, 1, j - 1)
             /\ p[j] < q[j]

PreorderRank(P, p) == Cardinality({ q \in P : PathBefore(q, p) }) + 1

\* C10: the lines of one print call are one line per node, in pre-order, the
\* line of a node at depth d indented by 2 * d and carrying its name, bare
\* or in bold, and then one blank line, the only one.
C10_PreorderLines ==
    (Printed /\ pc = "idle") =>
        LET last == passes[Len(passes)]
            lines == SubSeq(output, last.from, last.to)
            P == Paths(last.tree)
        IN  /\ Len(lines) = NodeCount(last.tree) + 1
            /\ Cardinality(P) = NodeCount(last.tree)
            /\ \A p \in P :
                  LET line == lines[PreorderRank(P, p)]
                      node == NodeAt(last.tree, p)
                  IN  /\ line.kind = "node"
                      /\ line.width = 2 * Len(p)
                      /\ line.name \in {node.name, BOLD \o node.name \o RESET}
                      /\ line.count = FmtCount(node.count)
                      /\ line.duration = FmtDuration(node.duration)
            /\ lines[Len(lines)] = BlankLine
            /\ \A k \in 1..(Len(lines) - 1) : lines[k].kind = "node"

\* A tree with a grandchild followed by a second child has been printed.
C10_Witness ==
    /\ Printed /\ pc = "idle"
    /\ LET tree == passes[Len(passes)].tree
       IN  /\ Len(tree.children) >= 2
           /\ tree.children[1].children # <<>>
           /\ Len(output) = NodeCount(tree) + 1

----------------------------------------------------------------------------
\* The nesting of the spans closed so far, read off the history

\* The closed spans whose parent was `id`, in closing order
ClosedUnder(id) == SelectSeq(log, LAMBDA e : e.parent = id)

\* The record of the closed span `id`
Closed(id) == CHOOSE e \in Range(log) : e.id = id

\* The closed spans below `id`, at any depth
RECURSIVE Descendants(_)
Descendants(id) ==
    LET kids == { e.id : e \in { x \in Range(log) : x.parent = id } }
    IN  kids \cup UNION { Descendants(k) : k \in kids }

\* The tree of the nesting below the closed span e: one node per span,
\* lasting from its creation to its close, under its parent, siblings in
\* closing order
RECURSIVE NestingTree(_)
NestingTree(e) ==
    LET kids == ClosedUnder(e.id)
    IN  MkNode(e.name, 1, e.end - e.start, [k \in 1..Len(kids) |-> NestingTree(kids[k])])

NestingForest(id) ==
    LET kids == ClosedUnder(id) IN [k \in 1..Len(kids) |-> NestingTree(kids[k])]

\* Every node of the trees of a children list
ForestNodes(children) == UNION { AllNodes(children[k]) : k \in DOMAIN children }

\* C1: with aggregation disabled, the tree printed when a root closes has one
\* node per span closed under that root, each under the node of its parent
\* span, and the lines written are those of that tree.
C1_TreeMirrorsNesting ==
    ~aggregate =>
        \A k \in DOMAIN passes :
            LET pass == passes[k]
                nesting == NestingTree(Closed(pass.id))
            IN  /\ pass.tree = nesting
                /\ NodeCount(pass.tree) = 1 + Cardinality(Descendants(pass.id))
                /\ SubSeq(output, pass.from, pass.to) = Go(nesting, 0)

\* A root with a child and a grandchild has been printed unaggregated.
C1_Witness ==
    /\ ~aggregate
    /\ \E k \in DOMAIN passes :
          /\ NodeCount(passes[k].tree) = 3
          /\ Len(passes[k].tree.children) = 1

\* C7: the children of a node are in the order in which the child spans
\* closed: in every in-progress list, and in the tree printed with
\* aggregation disabled.
C7_ChildrenInClosingOrder ==
    /\ \A p \in DOMAIN ext : ext[p].children = NestingForest(p)
    /\ ~aggregate => \A k \in DOMAIN passes : passes[k].tree.children = NestingForest(passes[k].id)

\* Two siblings were entered in one order and closed in the other, their
\* nodes differ, and their parent has been printed unaggregated.
C7_Witness ==
    /\ ~aggregate
    /\ \E k \in DOMAIN passes :
          LET kids == ClosedUnder(passes[k].id)
          IN  /\ Len(kids) = 2
              /\ kids[1].id > kids[2].id
              /\ passes[k].tree.children[1] # passes[k].tree.children[2]
              /\ passes[k].tree.children[1] = NestingTree(kids[1])

\* C8 as stated: every node of every in-progress list and of the root tree
\* has count >= 1 in every state, the aggregation loop included.
C8_CountAlwaysAtLeastOne ==
    /\ \A p \in DOMAIN ext : \A n \in ForestNodes(ext[p].children) : n.count >= 1
    /\ cur # <<>> => \A n \in AllNodes(cur[1]) : n.count >= 1

\* C8, amended: count is exactly 1 in every in-progress list and in the root
\* tree until Node::aggregate starts on it, and at least 1 in the root tree
\* once the truncation has run and after Node::aggregate has returned; while
\* the loop runs, the slots at or below idx and the slots not yet visited
\* hold nodes of count >= 1, and the slots between, whose nodes were merged
\* into an earlier sibling, hold Node::default(), of count 0.
C8_CountAtLeastOneOutsideLoop ==
    /\ \A p \in DOMAIN ext : \A n \in ForestNodes(ext[p].children) : n.count = 1
    /\ \A k \in DOMAIN passes : \A n \in AllNodes(passes[k].tree) :
          IF aggregate THEN n.count >= 1 ELSE n.count = 1
    /\ (cur # <<>> /\ (~aggregate \/ pc = "aggregate")) =>
          \A n \in AllNodes(cur[1]) : n.count = 1
    /\ (cur # <<>> /\ pc \in {"recurse", "go"}) =>
          \A n \in AllNodes(cur[1]) : n.count >= 1
    /\ pc = "loop" =>
          /\ cur[1].count = 1
          /\ \A k \in DOMAIN cur[1].children :
                IF idx < k - 1 /\ k - 1 < i
                THEN cur[1].children[k] = DefaultNode
                ELSE \A n \in AllNodes(cur[1].children[k]) : n.count >= 1

\* The loop has merged a sibling away and left Node::default() in its slot.
C8_Witness ==
    /\ pc = "loop"
    /\ \E k \in DOMAIN cur[1].children : cur[1].children[k].count = 0
    /\ \E k \in DOMAIN cur[1].children : cur[1].children[k].count = 2

\* The lines of the first k print calls, each those of the nesting below its
\* own root, aggregated when aggregation is enabled
RECURSIVE LinesOfPasses(_)
LinesOfPasses(k) ==
    IF k = 0 THEN <<>>
    ELSE LinesOfPasses(k - 1)
            \o Go(IF aggregate THEN GroupByName(NestingTree(Closed(passes[k].id)))
                               ELSE NestingTree(Closed(passes[k].id)), 0)

\* C9: there is one print call per closed root, in closing order, none for a
\* span closed under a parent; what has been written is the lines of those
\* calls, each the tree of its own root alone; and the node is dropped when
\* on_close returns.
C9_OnePassPerRoot ==
    LET roots == ClosedUnder(NoSpan)
    IN  /\ Len(passes) = IF pc \in {"aggregate", "loop", "recurse", "go"}
                          THEN Len(roots) - 1 ELSE Len(roots)
        /\ \A k \in DOMAIN passes : passes[k].id = roots[k].id
        /\ output = LinesOfPasses(Len(passes))
        /\ pc = "idle" => cur = <<>>

\* Two roots have been closed and printed, the first with a child, with
\* aggregation enabled.
C9_Witness ==
    /\ aggregate /\ pc = "idle"
    /\ Len(passes) = 2
    /\ Len(passes[1].tree.children) = 1
    /\ Len(log) = 3

----------------------------------------------------------------------------
\* The spans created so far
Created == 1..(nextId - 1)

\* The ids of the spans closed so far
ClosedIds == { log[k].id : k \in DOMAIN log }

\* C14: in every reachable state a Data exists for exactly the spans created
\* and not yet closed: every span is closed at most once, its Data is there
\* from on_new_span until its on_close and never after; so once a root and
\* all the spans under it have closed, no Data of any of them remains.
C14_DataExactlyForOpenSpans ==
    /\ DOMAIN ext = Open
    /\ Open = Created \ ClosedIds
    /\ \A j, k \in DOMAIN log : log[j].id = log[k].id => j = k
    /\ \A e \in Range(log) :
          e.parent = NoSpan => ({e.id} \cup Descendants(e.id)) \cap DOMAIN ext = {}

\* A root has closed after a span under it, and another span is still open.
C14_Witness ==
    /\ \E e \in Range(log) : e.parent = NoSpan /\ Descendants(e.id) # {}
    /\ Open # {}
    /\ pc = "idle"

----------------------------------------------------------------------------
\* The permutations of 1..n
Perms(n) == { f \in [1..n -> 1..n] : \A a, b \in 1..n : f[a] = f[b] => a = b }

\* `node` with the children list of the node at `path` rearranged by f
RECURSIVE PermutedAt(_, _, _)
PermutedAt(node, path, f) ==
    IF path = <<>>
    THEN [node EXCEPT !.children = [k \in DOMAIN @ |-> @[f[k]]]]
    ELSE [node EXCEPT !.children[Head(path)] = PermutedAt(@, Tail(path), f)]

\* C19: the aggregated tree does not depend on the order of any children
\* list: had the children of any one node of the tree handed to
\* Node::aggregate been in any other order, the aggregated tree would be the
\* one the call has produced, with the same names, counts, summed durations,
\* structure and child order.
C19_AggregateIgnoresSiblingOrder ==
    Aggregated =>
        LET tree == root.raw
        IN  \A path \in Paths(tree) :
               \A f \in Perms(Len(NodeAt(tree, path).children)) :
                  Aggregate(PermutedAt(tree, path, f)) = cur[1]

\* Node::aggregate has run on a tree whose root has two children of one name
\* that differ, one of them with children, and a child of another name.
C19_Witness ==
    /\ Aggregated
    /\ \E j, k \in DOMAIN root.raw.children :
          /\ root.raw.children[j].name = root.raw.children[k].name
          /\ root.raw.children[j].duration # root.raw.children[k].duration
          /\ root.raw.children[j].children # <<>>
          /\ root.raw.children[k].children = <<>>
    /\ \E j, k \in DOMAIN root.raw.children :
          root.raw.children[j].name # root.raw.children[k].name

\* C20: the compaction loop never fails assert!(idx <= i) and never indexes
\* outside the children list: whenever the loop is at the head of an
\* iteration, idx < i <= len, and every slot strictly between idx and i holds
\* Node::default() (count 0, no children), so that truncate(idx + 1), reached
\* with i = len, removes emptied slots only; the same loop does not fail in
\* the nested calls either.
C20_CompactionLoopSafe ==
    /\ pc # "panicked"
    /\ pc = "loop" =>
          LET ch == cur[1].children
          IN  /\ 0 <= idx /\ idx < i /\ i <= Len(ch)
              /\ \A k \in DOMAIN ch : (idx < k - 1 /\ k - 1 < i) => ch[k] = DefaultNode
    /\ pc = "recurse" => Len(cur[1].children) = idx + 1
    /\ pc = "aggregate" =>
          \A n \in Reached(root.raw) :
             n.children # <<>> =>
                ForLoop([ch |-> SortByName(n.children), idx |-> 0, ok |-> TRUE], 1).ok

\* The loop is at the head of an iteration, after a swap, with an emptied
\* slot between idx and i.
C20_Witness ==
    /\ pc = "loop"
    /\ idx >= 1
    /\ idx + 1 < i
    /\ i < Len(cur[1].children)
    /\ cur[1].children[idx + 2] = DefaultNode

----------------------------------------------------------------------------
\* C15: a step of on_close removes the Data of the closing span, appends
\* exactly one node, that of the closing span, at the end of the children of
\* its direct parent when it has one, and leaves the Data of every other open
\* span as it was; a step of on_event changes no Data and writes nothing.
C15_HandlersFrame ==
    [][/\ Len(log') = Len(log) + 1 =>
            LET e == log'[Len(log')]
                node == MkNode(e.name, 1, e.end - e.start, ext[e.id].children)
            IN  /\ DOMAIN ext' = DOMAIN ext \ {e.id}
                /\ \A s \in DOMAIN ext' : s # e.parent => ext'[s] = ext[s]
                /\ e.parent # NoSpan =>
                      /\ ext'[e.parent].start = ext[e.parent].start
                      /\ ext'[e.parent].children = Append(ext[e.parent].children, node)
       /\ events' # events => UNCHANGED <<spans, ext, output, cur, pc, passes, log>>
       /\ Len(log') = Len(log) \/ Len(log') = Len(log) + 1
      ]_vars

\* An event has been handled, and a span has closed under a parent that is
\* still open.
C15_Witness ==
    /\ events >= 1
    /\ \E s \in Open : ext[s].children # <<>>

----------------------------------------------------------------------------
\* C11: enable() never fails and the first installation wins: once a
\* listener is installed it stays installed with the aggregate flag and the
\* writer of the first call; a later call installs nothing, emits one debug
\* event and changes nothing else; and every tree printed is aggregated, or
\* not, and written as the configuration of the first call says.
C11_FirstEnableWins ==
    [][/\ pc' # "panicked"
       /\ global =>
             /\ global'
             /\ aggregate' = aggregate
             /\ writer' = writer
             /\ enables'.first = enables.first
       /\ (~global /\ global') =>
             /\ enables'.first = <<[aggregate |-> aggregate', writer |-> writer']>>
             /\ diag' = diag
       /\ diag' # diag =>
             /\ global
             /\ diag' = diag + 1
             /\ UNCHANGED <<spans, ext, output, passes, cur, pc, log, root>>
       /\ passes' # passes =>
             LET pass == passes'[Len(passes')]
                 cfg == enables.first[1]
             IN  /\ pass.tree = IF cfg.aggregate THEN Aggregate(root.raw) ELSE root.raw
                 /\ writer = cfg.writer
                 /\ output' = output \o Go(pass.tree, 0)
      ]_vars

\* A second enable() came with another configuration than the first, which
\* asked for aggregation, and a root has closed since and is about to be
\* printed.
C11_Witness ==
    /\ global
    /\ diag >= 1
    /\ enables.differed
    /\ enables.first[1].aggregate
    /\ pc = "go"

\* The name of a line is wrapped in BOLD and RESET
IsStyled(name) ==
    /\ Len(name) >= Len(BOLD) + Len(RESET)
    /\ SubSeq(name, 1, Len(BOLD)) = BOLD
    /\ SubSeq(name, Len(name) - Len(RESET) + 1, Len(name)) = RESET

\* C13: the name of a line is written in bold only when what the writer
\* writes to is an interactive terminal; for every other destination the
\* name is written bare.
C13_BoldOnlyOnTerminal ==
    \A k \in DOMAIN output :
       (output[k].kind = "node" /\ IsStyled(output[k].name)) => writer.terminal

----------------------------------------------------------------------------
\* on_close calls on threads: what they have written and appended

\* The writes made by the on_close call of span r, in the order they were made
WrittenBy(r) == SelectSeq(writes, LAMBDA w : w.by = r)

\* The lines of a sequence of writes
LinesOf(ws) == [k \in DOMAIN ws |-> ws[k].line]

\* The spans closed as roots whose on_close call is at stage `stage`
RootsAt(stage) == { r \in DOMAIN th : th[r].stage = stage /\ th[r].parent = NoSpan }

\* The nodes of a tree in pre-order, each with its depth
RECURSIVE Preorder(_, _)
RECURSIVE PreorderOfAll(_, _)
PreorderOfAll(children, depth) ==
    IF children = <<>> THEN <<>>
    ELSE Preorder(Head(children), depth) \o PreorderOfAll(Tail(children), depth)

Preorder(node, depth) ==
    <<[node |-> node, depth |-> depth]>> \o PreorderOfAll(node.children, depth + 1)

\* `lines` is one line per node of `tree`, in pre-order, each indented by
\* twice its depth, and then one blank line
IsPreorderOf(lines, tree) ==
    LET pre == Preorder(tree, 0)
    IN  /\ Len(lines) = Len(pre) + 1
        /\ \A k \in DOMAIN pre :
              LET line == lines[k]
                  node == pre[k].node
              IN  /\ line.kind = "node"
                  /\ line.width = 2 * pre[k].depth
                  /\ line.name \in {node.name, BOLD \o node.name \o RESET}
                  /\ line.count = FmtCount(node.count)
                  /\ line.duration = FmtDuration(node.duration)
        /\ lines[Len(lines)] = BlankLine

\* What holds of the on_close call of r whatever writes fail
AttemptsComplete(r) ==
    /\ th[r].stage # "panicked"
    /\ th[r].stage = "go" => th[r].pending # <<>>
    /\ th[r].stage = "done" => th[r].pending = <<>> /\ r \notin Open
    /\ (th[r].parent = NoSpan /\ th[r].stage = "done") =>
          IsPreorderOf(LinesOf(WrittenBy(r)), th[r].tree)

\* C12: a write that fails neither stops the traversal nor reaches the
\* caller: whichever of its writes fail, go goes on to the next line until
\* it has attempted one write per node of the tree, in pre-order, and the
\* blank line, and then on_close returns; a write that fails leaves the sink
\* as it was; and no write, failed or not, changes the Data of any span or
\* the state of any other call.
C12_WriteFailuresSwallowed ==
    [][/\ \A r \in DOMAIN th' : (r \notin DOMAIN th \/ th'[r] # th[r]) => AttemptsComplete(r)'
       /\ writes' = writes => output' = output
       /\ writes' # writes =>
             /\ Len(writes') = Len(writes) + 1
             /\ output' = IF writes'[Len(writes')].ok
                          THEN Append(output, writes'[Len(writes')].line)
                          ELSE output
             /\ ext' = ext
             /\ lock' = lock
             /\ \A t \in DOMAIN th : t # writes'[Len(writes')].by => th'[t] = th[t]
      ]_vars

\* A root with a child has been printed: the write of its first line failed,
\* a later one succeeded, on_close has returned, and another span is open.
C12_Witness ==
    \E r \in RootsAt("done") :
       /\ th[r].tree.children # <<>>
       /\ ~WrittenBy(r)[1].ok
       /\ \E k \in DOMAIN WrittenBy(r) : WrittenBy(r)[k].ok
       /\ DOMAIN ext # {}

\* The children of span id whose on_close has returned
ReturnedUnder(id) == { c \in DOMAIN th : th[c].stage = "done" /\ th[c].parent = id }

\* C16: whatever the interleaving of the on_close calls of the children of
\* one parent, the children list of the parent holds the node of every child
\* whose call has returned exactly once and nothing else: no append is lost
\* or overwritten, and the list the parent ends with is a permutation of the
\* nodes of all its closed children.
C16_NoAppendLost ==
    \A id \in DOMAIN ext \cup DOMAIN th :
       LET list == IF id \in DOMAIN ext THEN ext[id].children ELSE th[id].node.children
           done == ReturnedUnder(id)
       IN  /\ Len(list) = Cardinality(done)
           /\ \A c \in done :
                 Cardinality({ k \in DOMAIN list : list[k] = th[c].node })
                    = Cardinality({ d \in done : th[d].node = th[c].node })
           /\ id \in DOMAIN th => \A e \in Range(log) : e.parent = id => e.id \in done

\* Two children of one open parent were closing at the same time: the one
\* whose on_close started second has appended its node first.
C16_Witness ==
    \E id \in DOMAIN ext :
       /\ Len(ext[id].children) = 2
       /\ \E j, k \in DOMAIN log :
             /\ j < k
             /\ log[j].parent = id /\ log[k].parent = id
             /\ log[j].name # log[k].name
             /\ ext[id].children[1].name = log[k].name

\* C17: nothing serializes the output of two roots: a root that is printing
\* can always write its next line, whatever another root has written or has
\* still to write; each line is written whole, and the lines of one root
\* reach the sink in the pre-order of its tree, so that only the lines of two
\* trees, never their parts, can be interleaved.  (The lines of a root are
\* looked at each time it has written one.)
C17_LinesInterleaveWhole ==
    /\ \A r \in RootsAt("go") : ENABLED WriteLine(r, TRUE)
    /\ writes # <<>> =>
          LET r == writes[Len(writes)].by
          IN  /\ th[r].stage \in {"go", "done"}
              /\ IsPreorderOf(LinesOf(WrittenBy(r)) \o th[r].pending, th[r].tree)
              /\ output[Len(writes)] = writes[Len(writes)].line
    /\ Len(output) = Len(writes)

\* A line of one tree lies between two lines of another in the sink.
C17_Witness ==
    \E j, k, l \in DOMAIN writes :
       /\ j < k /\ k < l
       /\ writes[j].by = writes[l].by
       /\ writes[k].by # writes[j].by
       /\ output[k].kind = "node"

----------------------------------------------------------------------------
\* The on_close call of span id is at one of `stages`
At(t, id, stages) == id \in DOMAIN t /\ t[id].stage \in stages

\* C18: an on_close call for a span that has no Data, or whose parent has
\* none, terminates abnormally: it panics at the unwrap, appends no node to
\* any children list and writes nothing, and it goes no further afterwards;
\* no call panics otherwise.
C18_MissingDataPanics ==
    [][\A id \in DOMAIN th' :
          /\ (id \notin DOMAIN th /\ id \notin DOMAIN ext) => th'[id].stage = "panicked"
          /\ (At(th, id, {"push"}) /\ th'[id] # th[id] /\ spans[id].parent \notin DOMAIN ext)
                => th'[id].stage = "panicked"
          /\ (th'[id].stage = "panicked" /\ ~At(th, id, {"panicked"})) =>
                /\ id \notin DOMAIN ext \/ spans[id].parent \notin DOMAIN ext
                /\ output' = output
                /\ writes' = writes
                /\ \A s \in DOMAIN ext' : s \in DOMAIN ext /\ ext'[s] = ext[s]
                /\ \A t \in DOMAIN th \ {id} : th'[t] = th[t]
          /\ At(th, id, {"panicked"}) =>
                /\ th'[id] = th[id]
                /\ id \in Open'
                /\ \A k \in DOMAIN writes' : writes'[k].by # id
      ]_vars

\* One on_close call has panicked for want of its own Data, another, whose
\* span had its Data, for want of its parent's.
C18_Witness ==
    /\ \E id \in DOMAIN th : th[id].stage = "panicked" /\ id \notin ClosedIds
    /\ \E id \in DOMAIN th : th[id].stage = "panicked" /\ id \in ClosedIds
    /\ output = <<>>

====
